---- MODULE Spec2Model ----
(***************************************************************************)
(* Model of the MicroCode API backend: the authentication subsystem        *)
(* (app/auth/service.py), the persistence schema (app/models/__init__.py), *)
(* the settings (app/core/config.py) and the application bootstrap         *)
(* (app/main.py, app/api/v1/api.py).                                       *)
(*                                                                         *)
(* Conventions.  Python None is the string Null.  An Optional value whose  *)
(* present case is not a string (a timestamp, a record) is a set with at   *)
(* most one element.  Time is counted in whole seconds, the resolution of  *)
(* the exp claim of a JWT (a NumericDate).                                 *)
(***************************************************************************)
EXTENDS Integers, FiniteSets, Sequences, TLC

VARIABLES
    users,      \* the users table
    calls,      \* the authenticate_with_google calls in flight
    now,        \* the clock, in seconds
    last,       \* the last call of a token or user-resolution function
    payments,   \* the payments table
    orders,     \* the create-payment requests in flight
    settings,   \* the Settings object, read once at start
    buckets,    \* the rate limiter's state, per caller
    response,   \* the last HTTP response, with the request it answers
    loaded,     \* the last BACKEND_CORS_ORIGINS value validated, and the outcome
    reply       \* the last response of POST /google

authVars == <<users, calls, now, last>>
payVars == <<payments, orders>>
httpVars == <<settings, buckets, response>>
cfgVars == <<loaded>>
apiVars == <<reply>>
vars == <<authVars, payVars, httpVars, cfgVars, apiVars>>

Null == "None"

(***************************************************************************)
(* Settings (app/core/config.py)                                           *)
(***************************************************************************)
ACCESS_TOKEN_EXPIRE_MINUTES == 30
REFRESH_TOKEN_EXPIRE_DAYS == 7
SECRET_KEY == "secret-key"
ALGORITHM == "HS256"

AccessLifetime == ACCESS_TOKEN_EXPIRE_MINUTES * 60
RefreshLifetime == REFRESH_TOKEN_EXPIRE_DAYS * 24 * 60 * 60

(***************************************************************************)
(* Bounds of the model                                                     *)
(***************************************************************************)
\* number of authenticate_with_google calls that may be in flight together
MaxCalls == 2
\* number of clock advances in one behaviour
MaxTicks == 2
\* number of create-payment requests that may be in flight together
MaxOrders == 2

CallIds == 1..MaxCalls
UserIds == {"u1", "u2"}
Emails == {"ann@x", "bob@x"}
GoogleIds == {"g1", "g2"}
Issuers == {"accounts.google.com", "https://accounts.google.com", "evil.example"}
TickSteps == {1, AccessLifetime, RefreshLifetime}

\* the clock advances only by TickSteps, so its value tells how often it did
TicksUsed(t) == (t \div RefreshLifetime)
                + ((t % RefreshLifetime) \div AccessLifetime)
                + ((t % RefreshLifetime) % AccessLifetime)

(***************************************************************************)
(* users table (app/models/__init__.py, class User)                        *)
(***************************************************************************)
FindById(tbl, id) == {u \in tbl : u.id = id}
FindByEmail(tbl, e) == {u \in tbl : u.email = e}
FindByGoogleId(tbl, g) == {u \in tbl : u.google_id = g}

\* unique=True on email and google_id, primary key on id; NULLs never collide
UniqueOk(tbl) ==
    \A u, v \in tbl :
        u # v => /\ u.id # v.id
                 /\ u.email # v.email
                 /\ (u.google_id # Null => u.google_id # v.google_id)

\* a row registered through another channel, not yet linked to Google
SeedUser ==
    [id |-> "u1", email |-> "ann@x", full_name |-> "Ann", avatar_url |-> Null,
     google_id |-> Null, is_active |-> TRUE, is_verified |-> FALSE,
     is_premium |-> TRUE, last_login |-> {}]

SeedTables == {{}, {SeedUser}}

(***************************************************************************)
(* TokenManager (app/auth/service.py)                                      *)
(***************************************************************************)
Sign(claims, key) == <<key, claims>>

jwt_encode(claims, key) == [fmt |-> "jwt", claims |-> claims, sig |-> Sign(claims, key)]

Garbage == [fmt |-> "garbage",
            claims |-> [sub |-> Null, email |-> Null, exp |-> 0, type |-> Null],
            sig |-> Sign([sub |-> Null, email |-> Null, exp |-> 0, type |-> Null], Null)]

\* jwt.decode that never looks at exp
jwt_decode_NoExpiry(tok, key, t) ==
    IF tok.fmt # "jwt" THEN {}
    ELSE IF tok.sig # Sign(tok.claims, key) THEN {}
    ELSE {tok.claims}

\* jwt.decode: the claims, or nothing when the token is malformed, wrongly
\* signed or past its exp
jwt_decode(tok, key, t) ==
    IF tok.fmt # "jwt" THEN {}
    ELSE IF tok.sig # Sign(tok.claims, key) THEN {}
    ELSE IF tok.claims.exp < t THEN {}
    ELSE {tok.claims}

\* expires_delta is Optional: {} or {seconds}; timedelta(0) is falsy
create_access_token(data, expires_delta, t) ==
    LET expire == IF expires_delta # {} /\ expires_delta # {0}
                  THEN t + (CHOOSE d \in expires_delta : TRUE)
                  ELSE t + AccessLifetime
    IN jwt_encode([sub |-> data.sub, email |-> data.email,
                   exp |-> expire, type |-> "access"], SECRET_KEY)

create_refresh_token(data, t) ==
    jwt_encode([sub |-> data.sub, email |-> data.email,
                exp |-> t + RefreshLifetime, type |-> "refresh"], SECRET_KEY)

verify_token(tok, t) == jwt_decode(tok, SECRET_KEY, t)

(***************************************************************************)
(* GoogleAuthProvider (app/auth/service.py)                                *)
(***************************************************************************)
\* what id_token.verify_oauth2_token is handed: valid says whether the
\* library accepts signature, expiry and audience.  Every identity comes
\* with the first issuer; one identity comes with every issuer, accepted or not.
GooglePayloads ==
    [valid : {TRUE}, iss : {"accounts.google.com"}, sub : GoogleIds, email : Emails,
     profile : {<<"Ann", "pic">>, <<Null, Null>>},
     email_verified : {{}, {TRUE}, {FALSE}}]
    \cup
    [valid : BOOLEAN, iss : Issuers, sub : {"g1"}, email : {"ann@x"},
     profile : {<<Null, Null>>}, email_verified : {{TRUE}}]

NoData == [google_id |-> Null, email |-> Null, full_name |-> Null,
           avatar_url |-> Null, email_verified |-> FALSE]

\* verify_google_token with the issuer check left out
verify_google_token_AnyIssuer(p) ==
    IF ~p.valid
    THEN [ok |-> FALSE, data |-> NoData,
          detail |-> "Google token verification failed: <library error>"]
    ELSE [ok |-> TRUE, detail |-> Null,
          data |-> [google_id |-> p.sub, email |-> p.email,
                    full_name |-> p.profile[1], avatar_url |-> p.profile[2],
                    email_verified |-> IF p.email_verified = {} THEN FALSE
                                       ELSE CHOOSE b \in p.email_verified : TRUE]]

\* the except clause wraps every failure, its own issuer error included,
\* in one AuthenticationError
verify_google_token(p) ==
    IF ~p.valid
    THEN [ok |-> FALSE, data |-> NoData,
          detail |-> "Google token verification failed: <library error>"]
    ELSE IF p.iss \notin {"accounts.google.com", "https://accounts.google.com"}
    THEN [ok |-> FALSE, data |-> NoData,
          detail |-> "Google token verification failed: Invalid token issuer"]
    ELSE [ok |-> TRUE, detail |-> Null,
          data |-> [google_id |-> p.sub, email |-> p.email,
                    full_name |-> p.profile[1], avatar_url |-> p.profile[2],
                    email_verified |-> IF p.email_verified = {} THEN FALSE
                                       ELSE CHOOSE b \in p.email_verified : TRUE]]

(***************************************************************************)
(* State                                                                   *)
(***************************************************************************)
NoResult == [access_token |-> {}, refresh_token |-> {}, token_type |-> Null, user |-> {}]

IdleCall == [pc |-> "idle", gd |-> NoData, uid |-> Null, status |-> Null,
             detail |-> Null, branch |-> Null, at |-> 0, res |-> NoResult]

NoClaimData == [sub |-> Null, email |-> Null]

\* the last call of a TokenManager or AuthService function: its argument
\* (arg: a token, or data and delta: a claim set and a lifetime), the time
\* of the call and what it returned or raised
NoLast == [op |-> Null, at |-> 0, arg |-> {}, data |-> NoClaimData, delta |-> {},
           status |-> Null, claims |-> {}, user |-> {}, token |-> {},
           token_type |-> Null]

InitAuth ==
    /\ users \in SeedTables
    /\ calls = [c \in CallIds |-> IdleCall]
    /\ now = 0
    /\ last = NoLast

(***************************************************************************)
(* UserService and AuthService.authenticate_with_google; one action per    *)
(* await of the coroutine, so that calls interleave as the event loop      *)
(* lets them                                                               *)
(***************************************************************************)
Finish(c, st, msg) ==
    [calls EXCEPT ![c].pc = "done", ![c].status = st, ![c].detail = msg]

\* line 172: verify the Google token; a failure ends the call
VerifyGoogle(c, p) ==
    /\ calls[c].pc = "idle"
    /\ LET r == verify_google_token(p)
       IN calls' = IF r.ok
                   THEN [calls EXCEPT ![c].pc = "by_google_id", ![c].gd = r.data]
                   ELSE Finish(c, "AuthenticationError", r.detail)
    /\ UNCHANGED <<users, now, last, payVars, httpVars, cfgVars, apiVars>>

\* lines 175-177: scalar_one_or_none raises on more than one row
GetUserByGoogleId(c) ==
    /\ calls[c].pc = "by_google_id"
    /\ LET found == FindByGoogleId(users, calls[c].gd.google_id)
       IN calls' = IF Cardinality(found) > 1 THEN Finish(c, "MultipleResultsFound", "<database error>")
                   ELSE IF found = {} THEN [calls EXCEPT ![c].pc = "by_email"]
                   ELSE [calls EXCEPT ![c].pc = "update_login",
                                      ![c].uid = (CHOOSE u \in found : TRUE).id,
                                      ![c].branch = "google_id"]
    /\ UNCHANGED <<users, now, last, payVars, httpVars, cfgVars, apiVars>>

\* lines 181-183
GetUserByEmail(c) ==
    /\ calls[c].pc = "by_email"
    /\ LET found == FindByEmail(users, calls[c].gd.email)
       IN calls' = IF Cardinality(found) > 1 THEN Finish(c, "MultipleResultsFound", "<database error>")
                   ELSE IF found = {} THEN [calls EXCEPT ![c].pc = "create"]
                   ELSE [calls EXCEPT ![c].pc = "link",
                                      ![c].uid = (CHOOSE u \in found : TRUE).id]
    /\ UNCHANGED <<users, now, last, payVars, httpVars, cfgVars, apiVars>>

\* the link that is never written
WithGoogleId_NotSet(tbl, uid, g) == tbl

\* the table after UPDATE users SET google_id = g WHERE id = uid
WithGoogleId(tbl, uid, g) ==
    {IF u.id = uid THEN [u EXCEPT !.google_id = g] ELSE u : u \in tbl}

\* lines 187-188: the commit fails on the unique constraint of google_id
LinkGoogleAccount(c) ==
    /\ calls[c].pc = "link"
    /\ LET tbl == WithGoogleId(users, calls[c].uid, calls[c].gd.google_id)
       IN IF UniqueOk(tbl) /\ Cardinality(tbl) = Cardinality(users)
          THEN /\ users' = tbl
               /\ calls' = [calls EXCEPT ![c].pc = "update_login", ![c].branch = "email"]
          ELSE /\ users' = users
               /\ calls' = Finish(c, "IntegrityError", "<database error>")
    /\ UNCHANGED <<now, last, payVars, httpVars, cfgVars, apiVars>>

\* create_user_from_google that leaves is_verified at its column default
NewUser_FlagDropped(id, gd, t) ==
    [id |-> id, email |-> gd.email, full_name |-> gd.full_name,
     avatar_url |-> gd.avatar_url, google_id |-> gd.google_id,
     is_active |-> TRUE, is_verified |-> FALSE,
     is_premium |-> FALSE, last_login |-> {t}]

\* the row create_user_from_google adds; the column defaults fill the rest
NewUser(id, gd, t) ==
    [id |-> id, email |-> gd.email, full_name |-> gd.full_name,
     avatar_url |-> gd.avatar_url, google_id |-> gd.google_id,
     is_active |-> TRUE, is_verified |-> gd.email_verified,
     is_premium |-> FALSE, last_login |-> {t}]

\* the insert into a table that declares no unique constraint
InsertUser_NoConstraint(tbl, row) == tbl \cup {row}

\* INSERT INTO users: rejected when a unique constraint would be broken
InsertUser(tbl, row) == IF UniqueOk(tbl \cup {row}) THEN tbl \cup {row} ELSE tbl

\* lines 191-193 and 128-146
CreateUserFromGoogle(c) ==
    /\ calls[c].pc = "create"
    /\ \E id \in UserIds \ {u.id : u \in users} :
         LET row == NewUser(id, calls[c].gd, now)
             tbl == InsertUser(users, row)
         IN IF row \in tbl
            THEN /\ users' = tbl
                 /\ calls' = [calls EXCEPT ![c].pc = "update_login", ![c].uid = id,
                                           ![c].branch = "created"]
            ELSE /\ users' = users
                 /\ calls' = Finish(c, "IntegrityError", "<database error>")
    /\ UNCHANGED <<now, last, payVars, httpVars, cfgVars, apiVars>>

WithLastLogin(tbl, uid, t) ==
    {IF u.id = uid THEN [u EXCEPT !.last_login = {t}] ELSE u : u \in tbl}

Projection(u) ==
    [id |-> u.id, email |-> u.email, full_name |-> u.full_name,
     avatar_url |-> u.avatar_url, is_verified |-> u.is_verified,
     is_premium |-> u.is_premium]

\* lines 196-218: update_user_login (commit, refresh), then the tokens and
\* the projection, read from the refreshed row
UpdateLoginAndIssue(c) ==
    /\ calls[c].pc = "update_login"
    /\ users' = WithLastLogin(users, calls[c].uid, now)
    /\ LET user == CHOOSE u \in users' : u.id = calls[c].uid
       IN calls' = [calls EXCEPT
            ![c].pc = "done",
            ![c].status = "ok",
            ![c].at = now,
            ![c].res = [access_token |->
                            {create_access_token([sub |-> user.id, email |-> user.email],
                                                 {}, now)},
                        refresh_token |->
                            {create_refresh_token([sub |-> user.id, email |-> Null], now)},
                        token_type |-> "bearer",
                        user |-> {Projection(user)}]]
    /\ UNCHANGED <<now, last, payVars, httpVars, cfgVars, apiVars>>

\* the coroutine has returned or raised; the slot serves the next request
Return(c) ==
    /\ calls[c].pc = "done"
    /\ calls' = [calls EXCEPT ![c] = IdleCall]
    /\ UNCHANGED <<users, now, last, payVars, httpVars, cfgVars, apiVars>>

(***************************************************************************)
(* POST /google (app/api/v1/endpoints/auth.py): the endpoint awaits        *)
(* AuthService.authenticate_with_google and turns what it returned or      *)
(* raised into the HTTP response                                           *)
(***************************************************************************)
HttpReply(status_code, detail, body) ==
    [status_code |-> status_code, detail |-> detail, body |-> body]

\* an endpoint that answers every exception as an authentication failure
post_google_OneClause(call) ==
    IF call.status = "ok" THEN HttpReply(200, Null, call.res)
    ELSE HttpReply(401, call.detail, NoResult)

\* auth.py 49-63: the result, or the HTTPException of the except clause
\* that catches what the service raised
post_google(call) ==
    IF call.status = "ok" THEN HttpReply(200, Null, call.res)
    ELSE IF call.status = "AuthenticationError"
    THEN HttpReply(401, call.detail, NoResult)
    ELSE HttpReply(500, "Authentication failed", NoResult)

NoReply == [called |-> FALSE, call |-> 0, http |-> HttpReply(0, Null, NoResult)]

\* the service coroutine has returned or raised: the endpoint answers and
\* the slot serves the next request
PostGoogle(c) ==
    /\ calls[c].pc = "done"
    /\ reply' = [called |-> TRUE, call |-> c, http |-> post_google(calls[c])]
    /\ calls' = [calls EXCEPT ![c] = IdleCall]
    /\ UNCHANGED <<users, now, last, payVars, httpVars, cfgVars>>

(***************************************************************************)
(* Tokens a caller can present                                             *)
(***************************************************************************)
IssuedTokens ==
    UNION {calls[c].res.access_token \cup calls[c].res.refresh_token : c \in CallIds}
    \cup last.token

\* the type claim rewritten, the signature left as it was
Tampered(tok) ==
    [tok EXCEPT !.claims.type = IF @ = "access" THEN "refresh" ELSE "access"]

\* the same claims signed with a key that is not SECRET_KEY
Resigned(tok) == jwt_encode(tok.claims, "attacker-key")

Presentable ==
    IssuedTokens \cup {Tampered(t) : t \in IssuedTokens}
                 \cup {Resigned(t) : t \in IssuedTokens} \cup {Garbage}

(***************************************************************************)
(* AuthService.refresh_access_token and get_current_user                   *)
(***************************************************************************)
\* refresh_access_token that accepts a token of any type
refresh_access_token_AnyType(tbl, tok, t) ==
    LET payload == verify_token(tok, t)
    IN IF payload = {}
       THEN [status |-> "AuthenticationError", token |-> {}, token_type |-> Null]
       ELSE LET user == FindById(tbl, (CHOOSE p \in payload : TRUE).sub)
            IN IF user = {} \/ ~(CHOOSE u \in user : TRUE).is_active
               THEN [status |-> "AuthenticationError", token |-> {}, token_type |-> Null]
               ELSE LET u == CHOOSE u \in user : TRUE
                    IN [status |-> "ok",
                        token |-> {create_access_token(
                                      [sub |-> u.id, email |-> u.email], {}, t)},
                        token_type |-> "bearer"]

refresh_access_token(tbl, tok, t) ==
    LET payload == verify_token(tok, t)
    IN IF payload = {} \/ (CHOOSE p \in payload : TRUE).type # "refresh"
       THEN [status |-> "AuthenticationError", token |-> {}, token_type |-> Null]
       ELSE LET user == FindById(tbl, (CHOOSE p \in payload : TRUE).sub)
            IN IF user = {} \/ ~(CHOOSE u \in user : TRUE).is_active
               THEN [status |-> "AuthenticationError", token |-> {}, token_type |-> Null]
               ELSE LET u == CHOOSE u \in user : TRUE
                    IN [status |-> "ok",
                        token |-> {create_access_token(
                                      [sub |-> u.id, email |-> u.email], {}, t)},
                        token_type |-> "bearer"]

\* get_current_user that returns the row whatever its is_active
get_current_user_NoActiveCheck(tbl, tok, t) ==
    LET payload == verify_token(tok, t)
    IN IF payload = {} \/ (CHOOSE p \in payload : TRUE).type # "access" THEN {}
       ELSE LET user_id == (CHOOSE p \in payload : TRUE).sub
            IN IF user_id = Null THEN {}
               ELSE FindById(tbl, user_id)

get_current_user(tbl, tok, t) ==
    LET payload == verify_token(tok, t)
    IN IF payload = {} \/ (CHOOSE p \in payload : TRUE).type # "access" THEN {}
       ELSE LET user_id == (CHOOSE p \in payload : TRUE).sub
            IN IF user_id = Null THEN {}
               ELSE {u \in FindById(tbl, user_id) : u.is_active}

RefreshAccessToken(tok) ==
    /\ LET r == refresh_access_token(users, tok, now)
       IN last' = [NoLast EXCEPT !.op = "refresh_access_token", !.at = now,
                                 !.arg = {tok}, !.status = r.status,
                                 !.token = r.token, !.token_type = r.token_type]
    /\ UNCHANGED <<users, calls, now, payVars, httpVars, cfgVars, apiVars>>

GetCurrentUser(tok) ==
    /\ last' = [NoLast EXCEPT !.op = "get_current_user", !.at = now, !.arg = {tok},
                              !.status = "returned",
                              !.user = get_current_user(users, tok, now)]
    /\ UNCHANGED <<users, calls, now, payVars, httpVars, cfgVars, apiVars>>

VerifyToken(tok) ==
    /\ last' = [NoLast EXCEPT !.op = "verify_token", !.at = now, !.arg = {tok},
                              !.status = "returned",
                              !.claims = verify_token(tok, now)]
    /\ UNCHANGED <<users, calls, now, payVars, httpVars, cfgVars, apiVars>>

\* claim sets handed to the token constructors: sub and email, either may
\* be left out; UnknownId is a well-formed id that names no row
UnknownId == "u9"
ClaimData == [sub : UserIds \cup {UnknownId, Null}, email : {"ann@x", Null}]
Deltas == {{}, {0}, {60}}

CreateAccessToken(data, delta) ==
    /\ last' = [NoLast EXCEPT !.op = "create_access_token", !.at = now,
                              !.data = data, !.delta = delta, !.status = "returned",
                              !.token = {create_access_token(data, delta, now)}]
    /\ UNCHANGED <<users, calls, now, payVars, httpVars, cfgVars, apiVars>>

CreateRefreshToken(data) ==
    /\ last' = [NoLast EXCEPT !.op = "create_refresh_token", !.at = now,
                              !.data = data, !.status = "returned",
                              !.token = {create_refresh_token(data, now)}]
    /\ UNCHANGED <<users, calls, now, payVars, httpVars, cfgVars, apiVars>>

(***************************************************************************)
(* Environment                                                             *)
(***************************************************************************)
\* soft deactivation of an account (is_active := false)
Deactivate(id) ==
    /\ \E u \in users : u.id = id /\ u.is_active
    /\ users' = {IF u.id = id THEN [u EXCEPT !.is_active = FALSE] ELSE u : u \in users}
    /\ UNCHANGED <<calls, now, last, payVars, httpVars, cfgVars, apiVars>>

Tick(d) ==
    /\ TicksUsed(now) < MaxTicks
    /\ now' = now + d
    /\ UNCHANGED <<users, calls, last, payVars, httpVars, cfgVars, apiVars>>

(***************************************************************************)
(* payments table (app/models/__init__.py, class Payment) and the          *)
(* create-payment operation of the payments endpoint group                 *)
(***************************************************************************)
TaskIds == {"t1", "t2"}
PaymentIds == {"p1", "p2"}
Providers == {"stripe", "yookassa"}
OrderIds == 1..MaxOrders

\* INSERT INTO payments: the schema has a primary key on id, and task_id and
\* user_id are NOT NULL foreign keys; it declares no unique constraint on task_id
InsertPayment(tbl, usrs, row) ==
    IF /\ row.id \notin {q.id : q \in tbl}
       /\ row.task_id \in TaskIds
       /\ row.user_id \in {u.id : u \in usrs}
    THEN tbl \cup {row}
    ELSE tbl

\* the column defaults: status is PaymentStatus.PENDING
NewPayment(id, user_id, task_id, provider) ==
    [id |-> id, user_id |-> user_id, task_id |-> task_id,
     status |-> "pending", provider |-> provider]

IdleOrder == [pc |-> "idle", task_id |-> Null, user_id |-> Null,
              provider |-> Null, status |-> Null]

\* the endpoint looks for a payment of the task and refuses a second one
BeginPayment(o, task_id, user_id, provider) ==
    /\ orders[o].pc = "idle"
    /\ orders' = [orders EXCEPT ![o] =
         IF \E q \in payments : q.task_id = task_id
         THEN [IdleOrder EXCEPT !.pc = "done", !.task_id = task_id,
                                !.user_id = user_id, !.provider = provider,
                                !.status = "conflict"]
         ELSE [IdleOrder EXCEPT !.pc = "insert", !.task_id = task_id,
                                !.user_id = user_id, !.provider = provider]]
    /\ UNCHANGED <<payments, authVars, httpVars, cfgVars, apiVars>>

\* then it inserts the row and commits
CommitPayment(o) ==
    /\ orders[o].pc = "insert"
    /\ \E id \in PaymentIds \ {q.id : q \in payments} :
         LET row == NewPayment(id, orders[o].user_id, orders[o].task_id,
                               orders[o].provider)
             tbl == InsertPayment(payments, users, row)
         IN /\ payments' = tbl
            /\ orders' = [orders EXCEPT ![o].pc = "done",
                            ![o].status = IF row \in tbl THEN "created"
                                          ELSE "IntegrityError"]
    /\ UNCHANGED <<authVars, httpVars, cfgVars, apiVars>>

FinishOrder(o) ==
    /\ orders[o].pc = "done"
    /\ orders' = [orders EXCEPT ![o] = IdleOrder]
    /\ UNCHANGED <<payments, authVars, httpVars, cfgVars, apiVars>>

\* the provider's confirmation moves a payment along its lifecycle
StatusMoves ==
    {<<"pending", "processing">>, <<"pending", "completed">>, <<"pending", "failed">>,
     <<"processing", "completed">>, <<"processing", "failed">>,
     <<"completed", "refunded">>}

ProviderUpdate(id, st) ==
    /\ \E q \in payments : q.id = id /\ <<q.status, st>> \in StatusMoves
    /\ payments' = {IF q.id = id THEN [q EXCEPT !.status = st] ELSE q : q \in payments}
    /\ UNCHANGED <<orders, authVars, httpVars, cfgVars, apiVars>>

(***************************************************************************)
(* Application bootstrap (app/main.py) and router (app/api/v1/api.py)      *)
(***************************************************************************)
RATE_LIMIT_PER_MINUTE == 10
RATE_LIMIT_BURST == 20
API_V1_STR == "/api/v1"

Reverse(seq) == [i \in 1..Len(seq) |-> seq[Len(seq) + 1 - i]]
Range(seq) == {seq[i] : i \in 1..Len(seq)}

\* the values the Settings object may have been loaded with
SettingsChoices ==
    [VERSION : {"1.0.0", "2.3.0"},
     ENVIRONMENT : {"development"},
     ALLOWED_HOSTS : {<<"localhost", "127.0.0.1">>, <<"*">>},
     BACKEND_CORS_ORIGINS : {<<>>, <<"https://a.example">>}]
    \cup
    [VERSION : {"1.0.0"},
     ENVIRONMENT : {"production"},
     ALLOWED_HOSTS : {<<"localhost", "127.0.0.1">>},
     BACKEND_CORS_ORIGINS : {<<>>}]

Clients == {"10.0.0.1"}
Hosts == {"localhost", "evil.example"}
Paths == {"/", "/health", "/api/v1/health", "/api/v1/unknown"}

\* an OPTIONS request with an origin stands for a CORS preflight
Requests ==
    [method : {"GET", "OPTIONS"}, path : Paths, host : Hosts, client : Clients,
     origin : {Null, "https://a.example"}, authorization : {Null, "Bearer stale"}]

NoBody == [message |-> Null, status |-> Null, environment |-> Null, version |-> Null]

\* main.py 90-97
root(s) == [NoBody EXCEPT !.message = "MicroCode API", !.version = s.VERSION]

\* health_check that answers with a literal version
health_check_FixedVersion(s) ==
    [NoBody EXCEPT !.status = "healthy", !.environment = s.ENVIRONMENT,
                   !.version = "1.0.0"]

\* main.py 100-107
health_check(s) ==
    [NoBody EXCEPT !.status = "healthy", !.environment = s.ENVIRONMENT,
                   !.version = s.VERSION]

\* the health group's single operation, mounted at API_V1_STR + "/health"
health_v1(s) ==
    [NoBody EXCEPT !.status = "healthy", !.environment = s.ENVIRONMENT,
                   !.version = s.VERSION]

Answer(status, body, detail, by) ==
    [status |-> status, body |-> body, detail |-> detail, headers |-> {}, ran |-> <<by>>]

\* the routes of main.py and of the router mounted under API_V1_STR
route(s, req) ==
    IF req.path \notin {"/", "/health", "/api/v1/health"}
    THEN Answer(404, NoBody, "Not Found", "router")
    ELSE IF req.method # "GET"
    THEN Answer(405, NoBody, "Method Not Allowed", "router")
    ELSE IF req.path = "/" THEN Answer(200, root(s), Null, "router")
    ELSE IF req.path = "/health" THEN Answer(200, health_check(s), Null, "router")
    ELSE Answer(200, health_v1(s), Null, "router")

\* main.py 39-59: the add_middleware calls in the order they are made
Registered(s) ==
    <<"SecurityHeadersMiddleware", "RateLimitMiddleware">>
    \o (IF s.BACKEND_CORS_ORIGINS # <<>> THEN <<"CORSMiddleware">> ELSE <<>>)
    \o <<"TrustedHostMiddleware">>

\* a stack that runs the middlewares in the order they were added
MiddlewareStack_AsRegistered(s) == Registered(s)

\* add_middleware puts each middleware in front of those added before it, so
\* the one added last meets the request first
MiddlewareStack(s) == Reverse(Registered(s))

\* TrustedHostMiddleware(allowed_hosts=settings.ALLOWED_HOSTS)
TrustedHostAllows(s, host) ==
    "*" \in Range(s.ALLOWED_HOSTS) \/ host \in Range(s.ALLOWED_HOSTS)

\* RateLimitMiddleware: a caller whose bucket is empty is refused, any other
\* request spends one token of its caller's bucket
RateLimitAdmits(b, client) == b[client] > 0
RateLimitSpend(b, client) == [b EXCEPT ![client] = @ - 1]

\* SecurityHeadersMiddleware: the headers it puts on every response
SecurityHeaders == {"x-content-type-options", "x-frame-options"}

Passed(by, r) == [r EXCEPT !.resp.ran = <<by>> \o @]
WithHeaders(r, hs) == [r EXCEPT !.resp.headers = @ \cup hs]

RECURSIVE Dispatch(_, _, _, _)
\* the response to req and the rate limiter's state after it, when the
\* request enters the given stack of middlewares in front of the router
Dispatch(stack, s, req, b) ==
    IF stack = <<>> THEN [resp |-> route(s, req), buckets |-> b]
    ELSE LET mw == Head(stack)
             rest == Tail(stack)
         IN CASE mw = "TrustedHostMiddleware" ->
                   IF TrustedHostAllows(s, req.host)
                   THEN Passed(mw, Dispatch(rest, s, req, b))
                   ELSE [resp |-> Answer(400, NoBody, "Invalid host header", mw),
                         buckets |-> b]
              [] mw = "CORSMiddleware" ->
                   IF req.method = "OPTIONS" /\ req.origin # Null
                   THEN [resp |-> IF req.origin \in Range(s.BACKEND_CORS_ORIGINS)
                                  THEN Answer(200, NoBody, "OK", mw)
                                  ELSE Answer(400, NoBody, "Disallowed CORS origin", mw),
                         buckets |-> b]
                   ELSE WithHeaders(Passed(mw, Dispatch(rest, s, req, b)),
                                    IF req.origin \in Range(s.BACKEND_CORS_ORIGINS)
                                    THEN {"access-control-allow-origin"} ELSE {})
              [] mw = "RateLimitMiddleware" ->
                   IF ~RateLimitAdmits(b, req.client)
                   THEN [resp |-> Answer(429, NoBody, "Rate limit exceeded", mw),
                         buckets |-> b]
                   ELSE Passed(mw, Dispatch(rest, s, req,
                                            RateLimitSpend(b, req.client)))
              [] mw = "SecurityHeadersMiddleware" ->
                   WithHeaders(Passed(mw, Dispatch(rest, s, req, b)),
                               SecurityHeaders)

NoRequest == [method |-> Null, path |-> Null, host |-> Null, client |-> Null,
              origin |-> Null, authorization |-> Null]

NoResponse == [req |-> NoRequest,
               res |-> [status |-> 0, body |-> NoBody, detail |-> Null,
                        headers |-> {}, ran |-> <<>>]]

\* one inbound request, from the outermost middleware to the response
HandleRequest(req) ==
    /\ LET r == Dispatch(MiddlewareStack(settings), settings, req, buckets)
       IN /\ response' = [req |-> req, res |-> r.resp]
          /\ buckets' = r.buckets
    /\ UNCHANGED <<settings, authVars, payVars, cfgVars, apiVars>>

\* a minute passes: every caller's bucket gains RATE_LIMIT_PER_MINUTE, up to
\* RATE_LIMIT_BURST
RefillBuckets ==
    /\ buckets' = [c \in Clients |->
                     IF buckets[c] + RATE_LIMIT_PER_MINUTE > RATE_LIMIT_BURST
                     THEN RATE_LIMIT_BURST
                     ELSE buckets[c] + RATE_LIMIT_PER_MINUTE]
    /\ buckets' # buckets
    /\ UNCHANGED <<settings, response, authVars, payVars, cfgVars, apiVars>>

(***************************************************************************)
(* Settings.assemble_cors_origins (app/core/config.py), the validator that *)
(* runs on the raw BACKEND_CORS_ORIGINS value before the field is parsed.  *)
(* A string is the sequence of its characters.                             *)
(***************************************************************************)
\* longest string, and longest list, handed to the validator
MaxStrLen == 4
MaxListLen == 2

Chars == {"a", ",", " ", "["}

RECURSIVE StringsUpTo(_)
StringsUpTo(n) ==
    IF n = 0 THEN {<<>>}
    ELSE LET shorter == StringsUpTo(n - 1)
         IN shorter \cup {<<c>> \o t : c \in Chars, t \in {u \in shorter : Len(u) = n - 1}}

Strings == StringsUpTo(MaxStrLen)

\* the elements a list value is made of: plain, padded, holding a comma
ListItems == {<<"a">>, <<" ", "a", " ">>, <<"a", ",", "a">>}

RECURSIVE ListsUpTo(_)
ListsUpTo(n) ==
    IF n = 0 THEN {<<>>}
    ELSE LET shorter == ListsUpTo(n - 1)
         IN shorter \cup {<<x>> \o t : x \in ListItems, t \in {u \in shorter : Len(u) = n - 1}}

\* a Python value: its type, and its content when it is a str or a list
PyStr(str) == [type |-> "str", str |-> str, items |-> <<>>]
PyList(items) == [type |-> "list", str |-> <<>>, items |-> items]
PyOther(type) == [type |-> type, str |-> <<>>, items |-> <<>>]

OtherTypes == {"NoneType", "int", "dict", "tuple", "set", "bytes"}

CorsValues ==
    {PyStr(str) : str \in Strings}
    \cup {PyList(items) : items \in ListsUpTo(MaxListLen)}
    \cup {PyOther(type) : type \in OtherTypes}

RECURSIVE LStrip(_)
LStrip(str) == IF str # <<>> /\ Head(str) = " " THEN LStrip(Tail(str)) ELSE str

RECURSIVE RStrip(_)
RStrip(str) ==
    IF str # <<>> /\ str[Len(str)] = " " THEN RStrip(SubSeq(str, 1, Len(str) - 1)) ELSE str

\* a strip that leaves the whitespace at the end
Strip_LeftOnly(str) == LStrip(str)

\* str.strip(): whitespace removed at both ends
Strip(str) == RStrip(LStrip(str))

\* str.split(","): the pieces between the commas; at least one piece
RECURSIVE Split(_)
Split(str) ==
    IF \A k \in 1..Len(str) : str[k] # "," THEN <<str>>
    ELSE LET k == CHOOSE i \in 1..Len(str) :
                      str[i] = "," /\ \A j \in 1..(i - 1) : str[j] # ","
         IN <<SubSeq(str, 1, k - 1)>> \o Split(SubSeq(str, k + 1, Len(str)))

StartsWith(str, c) == str # <<>> /\ Head(str) = c

\* config.py 51-57: what the validator returns, or the ValueError it raises
assemble_cors_origins(v) ==
    IF v.type = "str" /\ ~StartsWith(v.str, "[")
    THEN [raised |-> Null,
          value |-> PyList([i \in 1..Len(Split(v.str)) |-> Strip(Split(v.str)[i])])]
    ELSE IF v.type \in {"list", "str"}
    THEN [raised |-> Null, value |-> v]
    ELSE [raised |-> "ValueError", value |-> PyOther("NoneType")]

NoLoad == [called |-> FALSE, v |-> PyOther("NoneType"),
           out |-> [raised |-> Null, value |-> PyOther("NoneType")]]

\* the validator runs on one raw value
AssembleCorsOrigins(v) ==
    /\ loaded' = [called |-> TRUE, v |-> v, out |-> assemble_cors_origins(v)]
    /\ UNCHANGED <<authVars, payVars, httpVars, apiVars>>

\* the defaults of config.py
DefaultSettings ==
    [VERSION |-> "1.0.0", ENVIRONMENT |-> "development",
     ALLOWED_HOSTS |-> <<"localhost", "127.0.0.1">>,
     BACKEND_CORS_ORIGINS |-> <<>>]

InitRest ==
    /\ payments = {}
    /\ orders = [o \in OrderIds |-> IdleOrder]
    /\ buckets = [c \in Clients |-> RATE_LIMIT_BURST]
    /\ response = NoResponse
    /\ loaded = NoLoad
    /\ reply = NoReply

Init == InitAuth /\ InitRest /\ settings = DefaultSettings

\* the payments of an account that exists
InitPay == InitAuth /\ users = {SeedUser} /\ InitRest /\ settings = DefaultSettings

\* the settings being loaded, before the service starts
InitConfig == InitAuth /\ users = {} /\ InitRest /\ settings = DefaultSettings

\* the service started with any of the settings
InitHttp == InitAuth /\ users = {} /\ InitRest /\ settings \in SettingsChoices

(***************************************************************************)
(* Specifications                                                          *)
(***************************************************************************)
AuthStep(c, payloads) ==
    \/ \E p \in payloads : VerifyGoogle(c, p)
    \/ GetUserByGoogleId(c)
    \/ GetUserByEmail(c)
    \/ LinkGoogleAccount(c)
    \/ CreateUserFromGoogle(c)
    \/ UpdateLoginAndIssue(c)
    \/ Return(c)

\* one request at a time, every payload, accounts deactivated in between
Next ==
    \/ AuthStep(1, GooglePayloads)
    \/ \E id \in UserIds : Deactivate(id)
    \/ Tick(1)

Spec == Init /\ [][Next]_vars

\* requests in flight together; the payloads differ in identity only
RacePayloads ==
    {p \in GooglePayloads : /\ p.valid
                            /\ p.iss = "accounts.google.com"
                            /\ p.profile[1] = Null
                            /\ p.email_verified = {TRUE}}

NextRace == \E c \in CallIds : AuthStep(c, RacePayloads)

SpecRace == Init /\ [][NextRace]_vars

\* the token functions on the tokens the constructors make, as a login makes
\* them, and on altered ones; the accounts are those of the initial table
NextTokens ==
    \/ \E tok \in Presentable : RefreshAccessToken(tok)
    \/ \E tok \in Presentable : GetCurrentUser(tok)
    \/ \E tok \in Presentable : VerifyToken(tok)
    \/ \E data \in ClaimData, delta \in Deltas : CreateAccessToken(data, delta)
    \/ \E data \in ClaimData : CreateRefreshToken(data)
    \/ \E id \in UserIds : Deactivate(id)
    \/ \E d \in TickSteps : Tick(d)

SpecTokens == Init /\ [][NextTokens]_vars

\* create-payment requests in flight together, and the provider's updates
NextPay ==
    \/ \E o \in OrderIds, t \in TaskIds, u \in users, pr \in Providers :
         BeginPayment(o, t, u.id, pr)
    \/ \E o \in OrderIds : CommitPayment(o)
    \/ \E o \in OrderIds : FinishOrder(o)
    \/ \E id \in PaymentIds, st \in {"processing", "completed", "failed", "refunded"} :
         ProviderUpdate(id, st)

SpecPay == InitPay /\ [][NextPay]_vars

\* inbound requests, one after another
NextHttp ==
    \/ \E req \in Requests : HandleRequest(req)
    \/ RefillBuckets

SpecHttp == InitHttp /\ [][NextHttp]_vars

\* POST /google requests in flight together: tokens Google accepts, tokens
\* it refuses and tokens of another issuer, for identities that share an email
EndpointPayloads ==
    {p \in GooglePayloads : /\ p.email = "ann@x"
                            /\ p.profile[1] = Null
                            /\ p.email_verified = {TRUE}}

NextEndpoint ==
    \E c \in CallIds :
        \/ \E p \in EndpointPayloads : VerifyGoogle(c, p)
        \/ GetUserByGoogleId(c)
        \/ GetUserByEmail(c)
        \/ LinkGoogleAccount(c)
        \/ CreateUserFromGoogle(c)
        \/ UpdateLoginAndIssue(c)
        \/ PostGoogle(c)

SpecEndpoint == Init /\ [][NextEndpoint]_vars

\* the configuration loader validating raw values, one after another
NextConfig == \E v \in CorsValues : AssembleCorsOrigins(v)

SpecConfig == InitConfig /\ [][NextConfig]_vars

(***************************************************************************)
(* Properties                                                              *)
(***************************************************************************)
GoodIssuers == {"accounts.google.com", "https://accounts.google.com"}

Returns(c) == calls[c].pc # "done" /\ calls'[c].pc = "done"
Starts(c) == calls[c].pc = "idle" /\ calls'[c].pc # "idle"

\* C1: an account whose is_active is false is rejected by every flow: no
\* authenticate_with_google call and no refresh_access_token call succeeds for
\* it and get_current_user never returns it.
C1_InactiveRejected ==
    [][/\ \A c \in CallIds :
            (Returns(c) /\ calls'[c].status = "ok")
            => \A u \in users' : u.id = calls'[c].uid => u.is_active
       /\ \A tok \in Presentable :
            (RefreshAccessToken(tok) /\ last'.status = "ok")
            => \A u \in users : u.id = tok.claims.sub => u.is_active
       /\ \A tok \in Presentable :
            GetCurrentUser(tok) => \A u \in last'.user : u.is_active]_vars

\* C2: a valid payload whose google_id and email match no row makes
\* authenticate_with_google add exactly one row, whose is_verified is the
\* provider's email_verified flag (false when absent), and return two tokens,
\* token_type "bearer" and the projection of that row.
C2_NewIdentityCreatesUser ==
    [][\A c \in CallIds :
        /\ Starts(c) => \A p \in GooglePayloads :
             (p.valid /\ p.iss \in GoodIssuers /\ VerifyGoogle(c, p))
             => /\ calls'[c].pc = "by_google_id"
                /\ calls'[c].gd.google_id = p.sub
                /\ calls'[c].gd.email = p.email
                /\ calls'[c].gd.email_verified = (p.email_verified = {TRUE})
                /\ users' = users
        /\ (/\ calls[c].pc = "create" /\ calls'[c].pc # "create"
            /\ \A u \in users : /\ u.google_id # calls[c].gd.google_id
                                /\ u.email # calls[c].gd.email)
           => /\ calls'[c].pc = "update_login"
              /\ users \subseteq users'
              /\ Cardinality(users') = Cardinality(users) + 1
              /\ \A u \in users' \ users :
                   /\ u.id = calls'[c].uid
                   /\ u.google_id = calls[c].gd.google_id
                   /\ u.email = calls[c].gd.email
                   /\ u.full_name = calls[c].gd.full_name
                   /\ u.avatar_url = calls[c].gd.avatar_url
                   /\ u.is_verified = calls[c].gd.email_verified
        /\ (Returns(c) /\ calls[c].pc = "update_login" /\ calls[c].branch = "created")
           => /\ calls'[c].status = "ok"
              /\ Cardinality(users') = Cardinality(users)
              /\ calls'[c].res.token_type = "bearer"
              /\ Cardinality(calls'[c].res.access_token) = 1
              /\ Cardinality(calls'[c].res.refresh_token) = 1
              /\ \E u \in users' :
                   /\ u.id = calls[c].uid
                   /\ u.is_verified = calls[c].gd.email_verified
                   /\ calls'[c].res.user =
                        {[id |-> u.id, email |-> u.email, full_name |-> u.full_name,
                          avatar_url |-> u.avatar_url, is_verified |-> u.is_verified,
                          is_premium |-> u.is_premium]}]_vars

\* a call has returned the projection of the row it created, verified by the provider
C2_Witness ==
    \E c \in CallIds :
        /\ calls[c].pc = "done" /\ calls[c].status = "ok" /\ calls[c].branch = "created"
        /\ \E u \in users : /\ u.id = calls[c].uid /\ u.is_verified
                            /\ Projection(u) \in calls[c].res.user

\* C3: a payload whose issuer is neither "accounts.google.com" nor
\* "https://accounts.google.com", or that fails verification otherwise, makes
\* authenticate_with_google fail with an AuthenticationError and leaves the
\* users table as it was.
C3_BadIssuerRejected ==
    [][\A c \in CallIds : Starts(c) => \A p \in GooglePayloads :
        ((~p.valid \/ p.iss \notin GoodIssuers) /\ VerifyGoogle(c, p))
        => /\ calls'[c].pc = "done"
           /\ calls'[c].status = "AuthenticationError"
           /\ users' = users]_vars

\* a call has failed on the issuer while the table holds a row
C3_Witness ==
    \E c \in CallIds :
        /\ calls[c].pc = "done" /\ calls[c].status = "AuthenticationError"
        /\ calls[c].detail = "Google token verification failed: Invalid token issuer"
        /\ users # {}

\* C4: when a row has the payload's email and no google_id and no row has the
\* payload's google_id, authenticate_with_google writes the google_id to that
\* row, returns that row's id and adds no row.
C4_LinkByEmail ==
    [][\A c \in CallIds :
        /\ (/\ calls[c].pc = "link" /\ calls'[c].pc # "link"
            /\ \A u \in users : u.google_id # calls[c].gd.google_id
            /\ \E u \in users : /\ u.email = calls[c].gd.email
                                /\ u.google_id = Null /\ u.id = calls[c].uid)
           => /\ calls'[c].pc = "update_login"
              /\ calls'[c].uid = calls[c].uid
              /\ Cardinality(users') = Cardinality(users)
              /\ \A u \in users :
                   IF u.id = calls[c].uid
                   THEN [u EXCEPT !.google_id = calls[c].gd.google_id] \in users'
                   ELSE u \in users'
        /\ (Returns(c) /\ calls[c].pc = "update_login" /\ calls[c].branch = "email")
           => /\ calls'[c].status = "ok"
              /\ Cardinality(users') = Cardinality(users)
              /\ \E u \in users' :
                   /\ u.id = calls[c].uid
                   /\ u.email = calls[c].gd.email
                   /\ u.google_id = calls[c].gd.google_id
                   /\ \A q \in calls'[c].res.user : q.id = u.id
                   /\ calls'[c].res.user # {}]_vars

\* a call has linked the payload's google_id to the only row and returned its id
C4_Witness ==
    \E c \in CallIds :
        /\ calls[c].pc = "done" /\ calls[c].status = "ok" /\ calls[c].branch = "email"
        /\ Cardinality(users) = 1
        /\ \E u \in users : /\ u.id = calls[c].uid
                            /\ u.google_id = calls[c].gd.google_id
                            /\ \E q \in calls[c].res.user : q.id = u.id

NoDuplicateIdentity(tbl) ==
    \A u, v \in tbl :
        u # v => /\ u.email # v.email
                 /\ (u.google_id = Null \/ u.google_id # v.google_id)

\* C9: whatever the interleaving of authenticate_with_google calls, no two
\* rows share an email or a google_id that is present; a call whose write
\* would break this fails and writes nothing.
C9_NoDuplicateIdentity ==
    [][/\ NoDuplicateIdentity(users)
       /\ NoDuplicateIdentity(users')
       /\ \A c \in CallIds :
            (Returns(c) /\ calls'[c].status = "IntegrityError")
            => /\ users' = users
               /\ \E u \in users : /\ u.id # calls[c].uid
                                   /\ \/ u.email = calls[c].gd.email
                                      \/ u.google_id = calls[c].gd.google_id]_vars

\* two calls carried the same unseen identity: one created the row, the
\* other, whose lookups had found nothing, failed on the insert
C9_Witness ==
    \E c, d \in CallIds :
        /\ c # d
        /\ calls[c].gd = calls[d].gd
        /\ calls[c].status = "ok" /\ calls[c].branch = "created"
        /\ calls[d].status = "IntegrityError"
        /\ Cardinality(users) = 1

\* the token is well formed, signed with SECRET_KEY and not past its exp at t
Verifies(tok, t) ==
    /\ tok.fmt = "jwt"
    /\ tok.sig = <<SECRET_KEY, tok.claims>>
    /\ t <= tok.claims.exp

\* C5: refresh_access_token fails with an AuthenticationError when the token
\* does not verify, its type is not "refresh", no row has the id in sub or
\* that row is inactive; otherwise it returns token_type "bearer" and a new
\* access token with sub = the row's id, its email and type = "access".
C5_RefreshContract ==
    [][\A tok \in Presentable :
        RefreshAccessToken(tok)
        => IF \/ ~Verifies(tok, now)
              \/ tok.claims.type # "refresh"
              \/ ~\E u \in users : u.id = tok.claims.sub /\ u.is_active
           THEN /\ last'.status = "AuthenticationError"
                /\ last'.token = {}
           ELSE /\ last'.status = "ok"
                /\ last'.token_type = "bearer"
                /\ Cardinality(last'.token) = 1
                /\ \A new \in last'.token : \E u \in users :
                     /\ Verifies(new, now)
                     /\ new.claims.sub = u.id /\ u.id = tok.claims.sub
                     /\ new.claims.email = u.email
                     /\ new.claims.type = "access"]_vars

\* a validly signed, unexpired access token of an active account was refused
C5_Witness ==
    /\ last.op = "refresh_access_token"
    /\ last.status = "AuthenticationError"
    /\ \E tok \in last.arg :
         /\ Verifies(tok, last.at)
         /\ tok.claims.type = "access"
         /\ \E u \in users : u.id = tok.claims.sub /\ u.is_active

\* C6: get_current_user never raises; it returns nothing for a token that
\* does not verify, whose type is not "access", that has no sub, whose sub
\* names no row or names an inactive row, and otherwise returns exactly the
\* active row that sub names.
C6_CurrentUserContract ==
    [][\A tok \in Presentable :
        GetCurrentUser(tok)
        => /\ last'.status = "returned"
           /\ last'.user =
                IF /\ Verifies(tok, now)
                   /\ tok.claims.type = "access"
                   /\ tok.claims.sub # Null
                THEN {u \in users : u.id = tok.claims.sub /\ u.is_active}
                ELSE {}]_vars

\* a validly signed access token naming an inactive account resolved to nothing
C6_Witness ==
    /\ last.op = "get_current_user"
    /\ last.user = {}
    /\ \E tok \in last.arg :
         /\ Verifies(tok, last.at)
         /\ tok.claims.type = "access"
         /\ \E u \in users : u.id = tok.claims.sub /\ ~u.is_active

\* C7: a token made by create_access_token with the default lifetime at time
\* t from a claim set with sub and email has exp = t + ACCESS_TOKEN_EXPIRE_MINUTES;
\* verify_token before exp returns type "access" with that sub and email, and
\* after exp returns nothing.
C7_AccessTokenLifetime ==
    [][/\ \A data \in ClaimData :
            (data.sub # Null /\ data.email # Null /\ CreateAccessToken(data, {}))
            => \A tok \in last'.token :
                 tok.claims.exp = now + ACCESS_TOKEN_EXPIRE_MINUTES * 60
       /\ \A tok \in last.token :
            (/\ last.op = "create_access_token" /\ last.delta = {}
             /\ last.data.sub # Null /\ last.data.email # Null
             /\ VerifyToken(tok))
            => /\ last'.status = "returned"
               /\ now < tok.claims.exp
                  => /\ Cardinality(last'.claims) = 1
                     /\ \A cl \in last'.claims : /\ cl.type = "access"
                                                 /\ cl.sub = last.data.sub
                                                 /\ cl.email = last.data.email
               /\ now > tok.claims.exp => last'.claims = {}]_vars

\* an access token of default lifetime was verified after its exp, to nothing
C7_Witness ==
    /\ last.op = "verify_token"
    /\ last.claims = {}
    /\ \E tok \in last.arg :
         /\ tok.fmt = "jwt" /\ tok.sig = <<SECRET_KEY, tok.claims>>
         /\ tok.claims.type = "access"
         /\ tok.claims.sub # Null /\ tok.claims.email # Null
         /\ tok.claims.exp < last.at
         /\ tok.claims.exp >= ACCESS_TOKEN_EXPIRE_MINUTES * 60

\* C8: a task_id appears in at most one row of payments, whatever the status
\* of the row that is there: a second payment for a task is refused.
C8_OnePaymentPerTask ==
    \A p, q \in payments : p.task_id = q.task_id => p.id = q.id

HealthRequest(req) == req.method = "GET" /\ req.path \in {"/health", "/api/v1/health"}

\* C10 as stated: every GET /health and GET /api/v1/health, whatever its Host
\* header, caller, credentials and history, is answered 200 with the
\* configured version and environment.
C10_HealthAlways200 ==
    HealthRequest(response.req)
    => /\ response.res.status = 200
       /\ response.res.body.version = settings.VERSION
       /\ response.res.body.environment = settings.ENVIRONMENT

\* C10 amended: GET /health and GET /api/v1/health need no credentials and,
\* when the Host header is one host validation accepts and the caller is
\* within its rate limit, are answered 200 with the configured version and
\* environment.
C10_HealthWhenAdmitted ==
    [][\A req \in {response'.req} \cap Requests :
        (/\ HealthRequest(req)
         /\ ("*" \in Range(settings.ALLOWED_HOSTS)
             \/ req.host \in Range(settings.ALLOWED_HOSTS))
         /\ buckets[req.client] > 0
         /\ HandleRequest(req))
        => /\ response'.res.status = 200
           /\ response'.res.body.status = "healthy"
           /\ response'.res.body.version = settings.VERSION
           /\ response'.res.body.environment = settings.ENVIRONMENT]_vars

\* a health request without credentials was answered 200 with a version
\* other than the default one
C10_Witness ==
    /\ HealthRequest(response.req)
    /\ response.req.authorization = Null
    /\ response.req.path = "/health"
    /\ response.res.status = 200
    /\ response.res.body.version = settings.VERSION
    /\ settings.VERSION # "1.0.0"

IsPrefix(a, b) == Len(a) <= Len(b) /\ \A i \in 1..Len(a) : a[i] = b[i]

Answered == response.req \in Requests

CommaAt(str) == {k \in 1..Len(str) : str[k] = ","}

\* the position of the i-th comma of str
NthComma(str, i) ==
    CHOOSE k \in CommaAt(str) : Cardinality({j \in CommaAt(str) : j < k}) = i - 1

\* the i-th of the parts the commas cut str into
Part(str, i) ==
    LET lo == IF i = 1 THEN 0 ELSE NthComma(str, i - 1)
        hi == IF i = Cardinality(CommaAt(str)) + 1 THEN Len(str) + 1 ELSE NthComma(str, i)
    IN SubSeq(str, lo + 1, hi - 1)

\* p from its first to its last character that is not whitespace
Trimmed(p) ==
    LET ns == {k \in 1..Len(p) : p[k] # " "}
    IN IF ns = {} THEN <<>>
       ELSE SubSeq(p, CHOOSE k \in ns : \A j \in ns : k <= j,
                      CHOOSE k \in ns : \A j \in ns : k >= j)

\* the list of the trimmed parts of str, in order
TrimmedParts(str) == [i \in 1..(Cardinality(CommaAt(str)) + 1) |-> Trimmed(Part(str, i))]

\* C12 as stated: every string is mapped to the list of its comma-separated
\* parts, stripped, in order; a list is returned unchanged; every other value
\* fails validation.
C12_EveryStringSplit ==
    loaded.called =>
        CASE loaded.v.type = "str" ->
               /\ loaded.out.raised = Null
               /\ loaded.out.value = PyList(TrimmedParts(loaded.v.str))
          [] loaded.v.type = "list" ->
               /\ loaded.out.raised = Null
               /\ loaded.out.value = loaded.v
          [] OTHER -> loaded.out.raised = "ValueError"

\* C12 amended: a string that does not start with "[" is mapped to the list
\* of its comma-separated parts, stripped, in order; a list, and a string
\* that starts with "[", is returned unchanged; every other value fails
\* validation.
C12_Normalisation ==
    loaded.called =>
        CASE loaded.v.type = "str" /\ ~(loaded.v.str # <<>> /\ loaded.v.str[1] = "[") ->
               /\ loaded.out.raised = Null
               /\ loaded.out.value = PyList(TrimmedParts(loaded.v.str))
          [] loaded.v.type \in {"str", "list"} ->
               /\ loaded.out.raised = Null
               /\ loaded.out.value = loaded.v
          [] OTHER -> loaded.out.raised = "ValueError"

\* "a, a" was validated and gave the two-element list ["a", "a"]
C12_Witness ==
    /\ loaded.called
    /\ loaded.v = PyStr(<<"a", ",", " ", "a">>)
    /\ loaded.out.raised = Null
    /\ loaded.out.value = PyList(<< <<"a">>, <<"a">> >>)

\* C13: POST /google answers an AuthenticationError of the service with 401
\* and the failure message, any other exception with 500 and the fixed detail
\* "Authentication failed", which is not the exception's text, and a
\* successful call with 200 and the service result unchanged.
C13_ErrorTranslation ==
    [][\A c \in CallIds :
        (calls[c].pc = "done" /\ calls'[c].pc = "idle")
        => LET call == calls[c]
               http == reply'.http
           IN /\ reply'.called /\ reply'.call = c
              /\ http.status_code \in {200, 401, 500}
              /\ call.status = "ok"
                    => /\ http.status_code = 200
                       /\ http.body = call.res
                       /\ http.body.access_token # {}
              /\ call.status = "AuthenticationError"
                    => /\ http.status_code = 401
                       /\ http.detail = call.detail
                       /\ http.body = NoResult
              /\ call.status \notin {"ok", "AuthenticationError"}
                    => /\ http.status_code = 500
                       /\ http.detail = "Authentication failed"
                       /\ http.detail # call.detail
                       /\ http.body = NoResult]_vars

\* a database error of the service (the losing insert of two racing
\* logins) was answered 500 "Authentication failed"
C13_Witness ==
    /\ reply.called
    /\ reply.http.status_code = 500
    /\ reply.http.detail = "Authentication failed"
    /\ \E c \in CallIds : calls[c].status = "ok"

\* C14: when a call returns successfully for the identity (g, e), the user
\* whose id it returns is the one row with google_id g, that row's
\* last_login is the time of the call, and the access and the refresh token
\* both carry that row's id as sub.
C14_ReturnedUserHoldsIdentity ==
    [][\A c \in CallIds :
        (Returns(c) /\ calls'[c].status = "ok")
        => LET res == calls'[c].res
               g == calls[c].gd.google_id
           IN /\ Cardinality(res.user) = 1
              /\ Cardinality(FindByGoogleId(users', g)) = 1
              /\ \A q \in res.user, u \in FindByGoogleId(users', g) :
                    /\ q.id = u.id
                    /\ u.last_login = {now}
                    /\ \A t \in res.access_token \cup res.refresh_token :
                          t.claims.sub = u.id
              /\ res.access_token # {} /\ res.refresh_token # {}]_vars

====
